---- MODULE Spec2Model ----
(***************************************************************************)
(* The statistic endpoint of leetcode_stats (src/app/endpoints.py): one    *)
(* inbound request, routed (404 from src/app/main.py when no route         *)
(* matches), forwarded as one POST to the upstream GraphQL service, the     *)
(* reply decoded and reshaped by StatsService._process_response, and        *)
(* answered with 200 or 500.                                                *)
(*                                                                         *)
(* Representation.                                                         *)
(*  - A decoded JSON value is a tagged record: [t |-> "null"],             *)
(*    [t |-> "int", v |-> n], [t |-> "str", v |-> s],                      *)
(*    [t |-> "list", v |-> <<...>>], [t |-> "obj", v |-> f] with f a       *)
(*    function from the keys that are present to their values.  A key      *)
(*    that is absent is not in DOMAIN f; a key that is present with JSON   *)
(*    null maps to Null.  Python's None is Null as well.                   *)
(*  - The numbers are the ints and [t |-> "float", v |-> x] for the three  *)
(*    floats that are not finite, x in NonFinite: json.loads reads NaN,    *)
(*    Infinity and 1e999 as such.  Finite numbers with a fraction and strs *)
(*    with a lone surrogate are outside the model.                         *)
(*  - A Python dict whose order matters (the submission calendar) is       *)
(*    [t |-> "dict", v |-> <<..<<key, value>>..>>], in insertion order.    *)
(*  - The evaluation of a Python expression is [exc |-> "none", val |-> v] *)
(*    when it returns v, and [exc |-> class, val |-> Null] when it raises. *)
(*  - acceptance_rate is kept in hundredths of a percent: 6000 is 60.0.    *)
(*  - A message f"<prefix>{str(e)}" is [prefix |-> ..., arg |-> class of   *)
(*    e]; the text of str(e) itself is the library's and is not modelled.  *)
(***************************************************************************)
EXTENDS Integers, Sequences, FiniteSets, TLC

VARIABLES pc, username, posts, responses, transport, response, result, http

vars == <<pc, username, posts, responses, transport, response, result, http>>

(***************************************************************************)
(* Bounds of the inputs.                                                   *)
(***************************************************************************)
MaxLen == 3
MaxCount == 1
MaxSub == 3

(***************************************************************************)
(* JSON / Python values.                                                   *)
(***************************************************************************)
Null == [t |-> "null"]
JInt(n) == [t |-> "int", v |-> n]
JStr(s) == [t |-> "str", v |-> s]
JList(s) == [t |-> "list", v |-> s]
JObj(f) == [t |-> "obj", v |-> f]
PyDict(pairs) == [t |-> "dict", v |-> pairs]

\* float("nan"), float("inf"), float("-inf")
NonFinite == {"nan", "inf", "-inf"}
JFloat(x) == [t |-> "float", v |-> x]

NoFields == [k \in {} |-> Null]
EmptyObj == JObj(NoFields)
EmptyList == JList(<<>>)

IsObj(x) == x.t = "obj"
IsInt(x) == x.t = "int"
IsList(x) == x.t = "list"
IsStr(x) == x.t = "str"
IsFloat(x) == x.t = "float"
IsNumber(x) == x.t \in {"int", "float"}

Ok(v) == [exc |-> "none", val |-> v]
Raise(e) == [exc |-> e, val |-> Null]

\* dict.get(key, default) on a value known to be a dict.
Get(o, key, default) == IF key \in DOMAIN o.v THEN o.v[key] ELSE default

\* x.get(key, default) for any x: a value that is no dict has no attribute get.
DotGet(x, key, default) ==
    IF IsObj(x) THEN Ok(Get(x, key, default)) ELSE Raise("AttributeError")

(***************************************************************************)
(* Exception classes, each with the classes it is an instance of, and the  *)
(* choice of an except clause: the first clause naming one of them.        *)
(***************************************************************************)
Bases(exc) ==
    CASE exc = "requests.ConnectionError" ->
           {"requests.ConnectionError", "RequestException", "OSError", "Exception"}
      [] exc = "requests.Timeout" ->
           {"requests.Timeout", "RequestException", "OSError", "Exception"}
      [] exc = "requests.HTTPError" ->
           {"requests.HTTPError", "RequestException", "OSError", "Exception"}
      [] exc = "requests.JSONDecodeError" ->
           {"requests.JSONDecodeError", "requests.InvalidJSONError",
            "RequestException", "OSError", "json.JSONDecodeError",
            "ValueError", "Exception"}
      [] exc = "json.JSONDecodeError" ->
           {"json.JSONDecodeError", "ValueError", "Exception"}
      [] exc = "KeyError" -> {"KeyError", "LookupError", "Exception"}
      [] exc = "TypeError" -> {"TypeError", "Exception"}
      [] exc = "ValueError" -> {"ValueError", "Exception"}
      [] exc = "AttributeError" -> {"AttributeError", "Exception"}

\* The index of the first clause of `clauses` (a sequence of sets of class
\* names) that catches exc, 0 when none does.
FirstClause(clauses, exc) ==
    LET hits == {i \in 1..Len(clauses) : clauses[i] \cap Bases(exc) # {}}
    IN  IF hits = {} THEN 0 ELSE CHOOSE i \in hits : \A j \in hits : i <= j

(***************************************************************************)
(* StatsResponse (src/app/models.py).                                      *)
(***************************************************************************)
Message(prefix, arg) == [prefix |-> prefix, arg |-> arg]

StatsResponse(status, message, kwargs) ==
    [status |-> status, message |-> message, data |-> kwargs]

StatsError(message) == StatsResponse("error", message, NoFields)

StatsSuccess(message, kwargs) == StatsResponse("success", message, kwargs)

(***************************************************************************)
(* The helpers of StatsService.                                            *)
(***************************************************************************)
\* a + b on two numbers of which one at least is a float that is not
\* finite: nan wins, inf + -inf is nan, and inf swallows any int.
AddNonFinite(a, b) ==
    IF (IsFloat(a) /\ a.v = "nan") \/ (IsFloat(b) /\ b.v = "nan")
    THEN JFloat("nan")
    ELSE IF IsFloat(a) /\ IsFloat(b)
         THEN IF a.v = b.v THEN a ELSE JFloat("nan")
    ELSE IF IsFloat(a) THEN a ELSE b

\* a + b on two Python values: numbers add, two strs and two lists
\* concatenate, anything else raises.
Add(a, b) ==
    CASE IsInt(a) /\ IsInt(b) -> Ok(JInt(a.v + b.v))
      [] IsNumber(a) /\ IsNumber(b) /\ ~(IsInt(a) /\ IsInt(b)) ->
           Ok(AddNonFinite(a, b))
      [] IsStr(a) /\ IsStr(b) -> Ok(JStr(a.v \o b.v))
      [] IsList(a) /\ IsList(b) -> Ok(JList(a.v \o b.v))
      [] OTHER -> Raise("TypeError")

\* Iterating `x` in a for clause: a list iterates, None and a number do
\* not.  (The inputs put nothing else where a list is expected.)
Iter(x) ==
    CASE x.t = "list" -> Ok(x)
      [] x.t \in {"null", "int", "float"} -> Raise("TypeError")

\* sum(q.get("count", 0) for q in items[i..]), started from acc: sum adds
\* left to right, so the first entry that is no dict, or whose count is no
\* number, raises.
RECURSIVE SumCounts(_, _, _)
SumCounts(items, i, acc) ==
    IF i > Len(items) THEN Ok(acc)
    ELSE LET c == DotGet(items[i], "count", JInt(0))
             next == IF c.exc # "none" THEN c ELSE Add(acc, c.val)
         IN  IF next.exc # "none" THEN next
             ELSE SumCounts(items, i + 1, next.val)

_sum_question_counts(questions) ==
    LET it == Iter(questions)
    IN  IF it.exc # "none" THEN it ELSE SumCounts(it.val.v, 1, JInt(0))

_sum_submission_counts(submissions) ==
    LET it == Iter(submissions)
    IN  IF it.exc # "none" THEN it ELSE SumCounts(it.val.v, 1, JInt(0))

\* A slip in the lookup: the fields of all matching entries are added up.
RECURSIVE FirstMatch_SumsMatches(_, _, _, _)
FirstMatch_SumsMatches(items, i, difficulty, field) ==
    IF i > Len(items) THEN Ok(JInt(0))
    ELSE LET d == DotGet(items[i], "difficulty", Null)
             rest == FirstMatch_SumsMatches(items, i + 1, difficulty, field)
         IN  IF d.exc # "none" THEN d
             ELSE IF rest.exc # "none" THEN rest
             ELSE IF IsStr(d.val) /\ d.val.v = difficulty
                  THEN Add(Get(items[i], field, JInt(0)), rest.val)
                  ELSE rest

\* next((e.get(field, 0) for e in items[i..] if e.get("difficulty") ==
\* difficulty), 0): the generator stops at the first match and never looks
\* at the entries after it.
RECURSIVE FirstMatch(_, _, _, _)
FirstMatch(items, i, difficulty, field) ==
    IF i > Len(items) THEN Ok(JInt(0))
    ELSE LET d == DotGet(items[i], "difficulty", Null)
         IN  IF d.exc # "none" THEN d
             ELSE IF IsStr(d.val) /\ d.val.v = difficulty
                  THEN DotGet(items[i], field, JInt(0))
                  ELSE FirstMatch(items, i + 1, difficulty, field)

_get_question_count(questions, difficulty) ==
    LET it == Iter(questions)
    IN  IF it.exc # "none" THEN it
        ELSE FirstMatch(it.val.v, 1, difficulty, "count")

_get_submission_count(submissions, difficulty) ==
    LET it == Iter(submissions)
    IN  IF it.exc # "none" THEN it
        ELSE FirstMatch(it.val.v, 1, difficulty, "count")

_get_submission_stat(submissions, difficulty, stat) ==
    LET it == Iter(submissions)
    IN  IF it.exc # "none" THEN it
        ELSE FirstMatch(it.val.v, 1, difficulty, stat)

\* A slip in line 68: the hard problems are left out of the sum.
SumSolved_DropsHard(easy_solved, medium_solved, hard_solved) ==
    Add(easy_solved, medium_solved)

\* Line 68: easy_solved + medium_solved + hard_solved, added left to right.
SumSolved(easy_solved, medium_solved, hard_solved) ==
    LET easy_medium == Add(easy_solved, medium_solved)
    IN  IF easy_medium.exc # "none" THEN easy_medium
        ELSE Add(easy_medium.val, hard_solved)

(***************************************************************************)
(* Python floats.  A float is sign * mant * 2^exp, where mant is a natural *)
(* number of at most MantBits bits (or 2^MantBits itself).  Naturals are    *)
(* written as limbs of LimbBits bits, lowest first, with no leading zero    *)
(* limb: 0 is <<>>.                                                         *)
(***************************************************************************)
Pow10(n) == IF n = 2 THEN 100 ELSE IF n = 1 THEN 10 ELSE 1

Magnitude(n) == IF n < 0 THEN -n ELSE n

\* The significand of a Python float has 53 bits.
MantBits == 53

LimbBits == 10

Base == 2 ^ LimbBits

\* a / t is carried to DivLimbs limbs after the binary point before it is
\* rounded: enough for MantBits significant bits whenever t < 2^21.
DivLimbs == 8

\* The limbs of the natural number n.
RECURSIVE NatLimbs(_)
NatLimbs(n) == IF n = 0 THEN <<>> ELSE <<n % Base>> \o NatLimbs(n \div Base)

\* The natural number that limbs writes.
RECURSIVE LimbsNat(_)
LimbsNat(limbs) ==
    IF limbs = <<>> THEN 0 ELSE Head(limbs) + Base * LimbsNat(Tail(limbs))

\* limbs without its leading zero limbs.
Trim(limbs) ==
    LET used == {i \in 1..Len(limbs) : limbs[i] # 0}
    IN  IF used = {} THEN <<>>
        ELSE SubSeq(limbs, 1, CHOOSE i \in used : \A j \in used : j <= i)

Limb(limbs, i) == IF i >= 1 /\ i <= Len(limbs) THEN limbs[i] ELSE 0

\* Bit i of limbs, bit 0 the lowest.
Bit(limbs, i) == (Limb(limbs, (i \div LimbBits) + 1) \div 2 ^ (i % LimbBits)) % 2

\* The number of bits of limbs.
BitLen(limbs) ==
    IF limbs = <<>> THEN 0
    ELSE (Len(limbs) - 1) * LimbBits
         + (CHOOSE w \in 1..LimbBits :
                2 ^ (w - 1) <= limbs[Len(limbs)] /\ limbs[Len(limbs)] < 2 ^ w)

\* The limbs of limbs * c + carry.
RECURSIVE MulAdd(_, _, _)
MulAdd(limbs, c, carry) ==
    IF limbs = <<>> THEN NatLimbs(carry)
    ELSE LET v == Head(limbs) * c + carry
         IN  <<v % Base>> \o MulAdd(Tail(limbs), c, v \div Base)

\* limbs / 2^s, the bits after the binary point dropped.
ShiftRight(limbs, s) ==
    LET q == s \div LimbBits
        r == s % LimbBits
    IN  Trim([i \in 1..(IF Len(limbs) > q THEN Len(limbs) - q ELSE 0) |->
                 (Limb(limbs, q + i) \div 2 ^ r)
                 + (Limb(limbs, q + i + 1) % 2 ^ r) * 2 ^ (LimbBits - r)])

\* limbs / 2^s rounded to the nearest integer, a tie to the even one.
\* inexact tells that limbs itself stands for a slightly larger number.
RoundShift(limbs, s, inexact) ==
    LET keep == ShiftRight(limbs, s)
        guard == s >= 1 /\ Bit(limbs, s - 1) = 1
        sticky == inexact \/ \E i \in 0..(s - 2) : Bit(limbs, i) = 1
        odd == Bit(limbs, s) = 1
    IN  IF guard /\ (sticky \/ odd) THEN MulAdd(keep, 1, 1) ELSE keep

\* The float nearest to sign * limbs * 2^exp: MantBits bits are kept.
FloatRound(sign, limbs, exp, inexact) ==
    LET extra == BitLen(limbs) - MantBits
    IN  IF extra <= 0 THEN [sign |-> sign, mant |-> limbs, exp |-> exp]
        ELSE [sign |-> sign, mant |-> RoundShift(limbs, extra, inexact),
              exp |-> exp + extra]

\* Long division of r / t, r < t, to k limbs after the binary point: the
\* limbs, and the remainder left.
RECURSIVE FracLimbs(_, _, _)
FracLimbs(r, t, k) ==
    IF k = 0 THEN [limbs |-> <<>>, rem |-> r]
    ELSE LET rest == FracLimbs((r * Base) % t, t, k - 1)
         IN  [limbs |-> Append(rest.limbs, (r * Base) \div t), rem |-> rest.rem]

\* a / t on two ints, t # 0: the float nearest to the quotient.
FloatDiv(a, t) ==
    LET frac == FracLimbs(Magnitude(a) % Magnitude(t), Magnitude(t), DivLimbs)
        whole == NatLimbs(Magnitude(a) \div Magnitude(t))
    IN  FloatRound(IF (a < 0) = (t < 0) THEN 1 ELSE -1,
                   Trim(frac.limbs \o whole), -(DivLimbs * LimbBits),
                   frac.rem # 0)

\* x * c, x a float and c a positive int: the float nearest to the product.
FloatMulInt(x, c) == FloatRound(x.sign, MulAdd(x.mant, c, 0), x.exp, FALSE)

\* value * 10^decimal_place as limbs * 2^value.exp, exactly.
Scaled(value, decimal_place) == MulAdd(value.mant, Pow10(decimal_place), 0)

\* A slip in _round: the digits after decimal_place are cut, not rounded.
_round_Truncates(value, decimal_place) ==
    LET n == Scaled(value, decimal_place)
    IN  value.sign * (IF value.exp >= 0 THEN LimbsNat(n) * 2 ^ value.exp
                      ELSE LimbsNat(ShiftRight(n, -value.exp)))

\* round(value, decimal_place), in units of 10^-decimal_place: Python rounds
\* the exact value of the float to the nearest, a tie to the even neighbour.
_round(value, decimal_place) ==
    LET n == Scaled(value, decimal_place)
    IN  value.sign * (IF value.exp >= 0 THEN LimbsNat(n) * 2 ^ value.exp
                      ELSE LimbsNat(RoundShift(n, -value.exp, FALSE)))

\* round((a / t) * 100, 2) on two numbers of which one at least is a float
\* that is not finite: nan and inf / inf give nan, inf / int gives inf with
\* the sign of the quotient, int / inf gives 0.0; the product and round
\* leave nan and inf as they are.
NonFiniteRate(a, t) ==
    IF (IsFloat(a) /\ a.v = "nan") \/ (IsFloat(t) /\ t.v = "nan")
    THEN JFloat("nan")
    ELSE IF IsFloat(a) /\ IsFloat(t) THEN JFloat("nan")
    ELSE IF IsFloat(a)
         THEN JFloat(IF (a.v = "inf") = (t.v > 0) THEN "inf" ELSE "-inf")
    ELSE JInt(0)

\* `total_count != 0` is false for the number 0 only; a division with an
\* operand that is no number raises TypeError.  The value is in hundredths.
_calculate_acceptance_rate(accept_count, total_count) ==
    IF IsInt(total_count) /\ total_count.v = 0 THEN Ok(JInt(0))
    ELSE IF ~(IsNumber(accept_count) /\ IsNumber(total_count))
         THEN Raise("TypeError")
    ELSE IF ~(IsInt(accept_count) /\ IsInt(total_count))
         THEN Ok(NonFiniteRate(accept_count, total_count))
    ELSE Ok(JInt(_round(FloatMulInt(FloatDiv(accept_count.v, total_count.v),
                                    100), 2)))

(***************************************************************************)
(* The submission calendar: a JSON text inside the payload.                *)
(***************************************************************************)
\* json.loads on the calendar texts the inputs use; anything that is no str
\* raises TypeError.
JsonLoads(s) ==
    IF ~IsStr(s) THEN Raise("TypeError")
    ELSE CASE s.v = "{}" -> Ok(PyDict(<<>>))
           [] s.v = "{\"1620000000\":5,\"1610000000\":2}" ->
                Ok(PyDict(<< <<"1620000000", JInt(5)>>, <<"1610000000", JInt(2)>> >>))
           [] s.v = "[1, 2]" -> Ok(JList(<<JInt(1), JInt(2)>>))
           [] s.v = "5" -> Ok(JInt(5))
           [] s.v = "null" -> Ok(Null)
           [] s.v = "not json" -> Raise("json.JSONDecodeError")
           [] s.v = "" -> Raise("json.JSONDecodeError")

\* The place of a calendar key in the lexicographic order of the keys.
KeyRank(k) ==
    CASE k = "1610000000" -> 1
      [] k = "1620000000" -> 2

RECURSIVE InsertPair(_, _)
InsertPair(sorted, p) ==
    IF sorted = <<>> THEN <<p>>
    ELSE IF KeyRank(p[1]) < KeyRank(Head(sorted)[1]) THEN <<p>> \o sorted
    ELSE <<Head(sorted)>> \o InsertPair(Tail(sorted), p)

\* sorted(calendar.items())
RECURSIVE SortedItems(_)
SortedItems(pairs) ==
    IF pairs = <<>> THEN <<>>
    ELSE InsertPair(SortedItems(Tail(pairs)), Head(pairs))

_parse_submission_calendar(calendar_str) ==
    LET calendar == JsonLoads(calendar_str)
    IN  IF calendar.exc = "none"
        THEN IF calendar.val.t = "dict"
             THEN Ok(PyDict(SortedItems(calendar.val.v)))
             ELSE Raise("AttributeError")
        ELSE IF FirstClause(<<{"json.JSONDecodeError"}>>, calendar.exc) = 1
             THEN Ok(PyDict(<<>>))
             ELSE calendar

(***************************************************************************)
(* StatsService._process_response.                                         *)
(***************************************************************************)
\* The first evaluation of `steps` (in program order) that raised, or the
\* last one when none did.
FirstRaise(steps) ==
    LET bad == {i \in 1..Len(steps) : steps[i].exc # "none"}
    IN  IF bad = {} THEN steps[Len(steps)]
        ELSE steps[CHOOSE i \in bad : \A j \in bad : i <= j]

\* The try block (lines 53-103), statement by statement.  A statement after
\* one that raised is never run: FirstRaise keeps the first exception only.
TryBlock(response_data) ==
    LET data == DotGet(response_data, "data", EmptyObj)
        all_questions == DotGet(data.val, "allQuestionsCount", EmptyList)
        matched_user == DotGet(data.val, "matchedUser", EmptyObj)
        submit_stats == DotGet(matched_user.val, "submitStats", EmptyObj)
        actual_submissions == DotGet(submit_stats.val, "acSubmissionNum", EmptyList)
        total_submissions == DotGet(submit_stats.val, "totalSubmissionNum", EmptyList)
        total_questions == _sum_question_counts(all_questions.val)
        total_easy == _get_question_count(all_questions.val, "Easy")
        total_medium == _get_question_count(all_questions.val, "Medium")
        total_hard == _get_question_count(all_questions.val, "Hard")
        easy_solved == _get_submission_count(actual_submissions.val, "Easy")
        medium_solved == _get_submission_count(actual_submissions.val, "Medium")
        hard_solved == _get_submission_count(actual_submissions.val, "Hard")
        total_solved ==
            SumSolved(easy_solved.val, medium_solved.val, hard_solved.val)
        total_accept_count ==
            _get_submission_stat(actual_submissions.val, "Easy", "submissions")
        total_sub_count ==
            _get_submission_stat(total_submissions.val, "Easy", "submissions")
        acceptance_rate ==
            _calculate_acceptance_rate(total_accept_count.val, total_sub_count.val)
        contributions == DotGet(matched_user.val, "contributions", EmptyObj)
        contribution_points == DotGet(contributions.val, "points", JInt(0))
        profile1 == DotGet(matched_user.val, "profile", EmptyObj)
        reputation == DotGet(profile1.val, "reputation", JInt(0))
        profile2 == DotGet(matched_user.val, "profile", EmptyObj)
        ranking == DotGet(profile2.val, "ranking", JInt(0))
        calendar_str == DotGet(matched_user.val, "submissionCalendar", JStr("{}"))
        submission_calendar == _parse_submission_calendar(calendar_str.val)
        success ==
            Ok(StatsSuccess(Message("retrieved", ""),
                [total_solved |-> total_solved.val,
                 total_questions |-> total_questions.val,
                 easy_solved |-> easy_solved.val,
                 total_easy |-> total_easy.val,
                 medium_solved |-> medium_solved.val,
                 total_medium |-> total_medium.val,
                 hard_solved |-> hard_solved.val,
                 total_hard |-> total_hard.val,
                 acceptance_rate |-> acceptance_rate.val,
                 ranking |-> ranking.val,
                 contribution_points |-> contribution_points.val,
                 reputation |-> reputation.val,
                 submission_calendar |-> submission_calendar.val]))
    IN  FirstRaise(<<data, all_questions, matched_user, submit_stats,
                     actual_submissions, total_submissions, total_questions,
                     total_easy, total_medium, total_hard, easy_solved,
                     medium_solved, hard_solved, total_solved,
                     total_accept_count, total_sub_count, acceptance_rate,
                     contributions, contribution_points, profile1, reputation,
                     profile2, ranking, calendar_str, submission_calendar,
                     success>>)

\* The except clauses of _process_response, in their order (lines 104-107).
ProcessExcepts == <<{"KeyError"}, {"TypeError", "ValueError"}>>

\* Returns a StatsResponse, or lets the exception no clause catches escape.
_process_response(response_data) ==
    LET r == TryBlock(response_data)
        clause == FirstClause(ProcessExcepts, r.exc)
    IN  IF r.exc = "none" THEN r
        ELSE CASE clause = 1 ->
                    Ok(StatsError(Message("Missing key in response: ", r.exc)))
               [] clause = 2 ->
                    Ok(StatsError(Message("Data processing error: ", r.exc)))
               [] clause = 0 -> r

(***************************************************************************)
(* StatsService.get_stats.                                                 *)
(***************************************************************************)
\* The except clauses of get_stats, in their order (lines 25-30).
GetStatsExcepts == <<{"RequestException"}, {"json.JSONDecodeError"}, {"Exception"}>>

\* A slip in get_stats: `except Exception` stands first and catches all.
HandleException_GenericFirst(exc) ==
    StatsError(Message("An unexpected error occurred: ", exc))

\* The StatsResponse get_stats returns when exc is raised inside its try.
HandleException(exc) ==
    LET clause == FirstClause(GetStatsExcepts, exc)
    IN  CASE clause = 1 -> StatsError(Message("Request failed: ", exc))
          [] clause = 2 -> StatsError(Message("Failed to decode JSON response", ""))
          [] clause = 3 -> StatsError(Message("An unexpected error occurred: ", exc))

\* response.raise_for_status(): HTTPError for a 4xx or 5xx status only.
RaiseForStatus(resp) ==
    IF resp.status_code >= 400 /\ resp.status_code < 600
    THEN Raise("requests.HTTPError") ELSE Ok(Null)

\* response.json(): the decoded body, or the decode error of the installed
\* requests: requests.JSONDecodeError since 2.27 (an InvalidJSONError, hence a
\* RequestException, and a json.JSONDecodeError), json.JSONDecodeError before.
ResponseJson(resp, decodeError) ==
    IF resp.body.t = "invalid" THEN Raise(decodeError) ELSE Ok(resp.body)

JsonErrorClasses == {"requests.JSONDecodeError", "json.JSONDecodeError"}

\* Lines 23-30 once requests.post has returned resp.
AfterPost(resp, decodeError) ==
    LET status == RaiseForStatus(resp)
        decoded == ResponseJson(resp, decodeError)
        processed == _process_response(decoded.val)
        r == FirstRaise(<<status, decoded, processed>>)
    IN  IF r.exc = "none" THEN r.val ELSE HandleException(r.exc)

(***************************************************************************)
(* The inputs: usernames, transport outcomes and upstream payloads.        *)
(***************************************************************************)
\* The username segments of the inbound paths /api/v1/statistic/<segment>;
\* "" is the path with an empty segment, or with none.
Usernames == {"", "alice"}

PostExceptions == {"requests.ConnectionError", "requests.Timeout"}

Absent == [t |-> "absent"]
Invalid == [t |-> "invalid"]

\* The JSON object with the fields of kv (a sequence of <<key, value>>)
\* whose value is not Absent.
MkObj(kv) ==
    LET present == {i \in 1..Len(kv) : kv[i][2].t # "absent"}
    IN  JObj([k \in {kv[i][1] : i \in present} |->
                kv[CHOOSE i \in present : kv[i][1] = k][2]])

\* The JSON lists over the entries S of length m.
ListsOf(S, m) == {JList(s) : s \in [1..m -> S]}

Labels == {"Easy", "Medium", "Hard", "All"}
CountOpts == {Absent} \cup {JInt(n) : n \in 0..MaxCount}
SubOpts == {Absent} \cup {JInt(n) : n \in 0..MaxSub}

\* Entries {difficulty, count} and lists of them.
CountEntries ==
    {MkObj(<< <<"difficulty", JStr(d)>>, <<"count", c>> >>) :
        d \in Labels, c \in CountOpts}

\* Entries {difficulty, submissions} and lists of them.
SubEntries ==
    {MkObj(<< <<"difficulty", JStr(d)>>, <<"submissions", c>> >>) :
        d \in {"Easy", "Medium"}, c \in SubOpts}
EasyList(n) ==
    JList(<<MkObj(<< <<"difficulty", JStr("Easy")>>, <<"submissions", JInt(n)>> >>)>>)
EasyOnly == {EmptyList} \cup {EasyList(n) : n \in 0..MaxSub}

\* Accepted and total "Easy" submissions of larger accounts; for the last
\* three the rate lies halfway between two hundredths.
RateSamples == {<<12, 20>>, <<23, 160>>, <<49, 160>>, <<51, 160>>}

\* Entries that are malformed: no record, no difficulty, a null count.
BadEntries ==
    {Null, JInt(1), EmptyObj,
     MkObj(<< <<"difficulty", JStr("Easy")>>, <<"count", Null>> >>),
     MkObj(<< <<"difficulty", JStr("Easy")>>, <<"count", JInt(1)>>,
              <<"submissions", Null>> >>),
     MkObj(<< <<"difficulty", JStr("Easy")>>, <<"count", JInt(1)>>,
              <<"submissions", JInt(1)>> >>),
     MkObj(<< <<"difficulty", JStr("Medium")>>, <<"count", JInt(1)>> >>),
     MkObj(<< <<"difficulty", JStr("Hard")>>, <<"count", JInt(1)>> >>),
     MkObj(<< <<"difficulty", JStr("Easy")>>, <<"count", JStr("1")>> >>),
     MkObj(<< <<"difficulty", JStr("Medium")>>, <<"count", JStr("2")>> >>),
     MkObj(<< <<"difficulty", JStr("Hard")>>, <<"count", JStr("3")>> >>),
     MkObj(<< <<"difficulty", JStr("Easy")>>,
              <<"count", JList(<<JInt(1)>>)>> >>),
     MkObj(<< <<"difficulty", JStr("Medium")>>,
              <<"count", JList(<<JInt(2)>>)>> >>),
     MkObj(<< <<"difficulty", JStr("Hard")>>, <<"count", EmptyList>> >>)}

FullEntry(d, c, n) ==
    MkObj(<< <<"difficulty", JStr(d)>>, <<"count", JInt(c)>>,
             <<"submissions", JInt(n)>> >>)

\* A well-formed payload's lists, as the upstream sends them.
SampleQuestions ==
    JList(<<MkObj(<< <<"difficulty", JStr("All")>>, <<"count", JInt(3)>> >>),
            MkObj(<< <<"difficulty", JStr("Easy")>>, <<"count", JInt(1)>> >>),
            MkObj(<< <<"difficulty", JStr("Medium")>>, <<"count", JInt(1)>> >>),
            MkObj(<< <<"difficulty", JStr("Hard")>>, <<"count", JInt(1)>> >>)>>)
SampleAccepted ==
    JList(<<FullEntry("All", 2, 3), FullEntry("Easy", 1, 2),
            FullEntry("Medium", 1, 1), FullEntry("Hard", 0, 0)>>)
SampleTotal ==
    JList(<<FullEntry("All", 2, 6), FullEntry("Easy", 1, 3),
            FullEntry("Medium", 1, 2), FullEntry("Hard", 0, 1)>>)

CalendarTexts ==
    {"{}", "{\"1620000000\":5,\"1610000000\":2}", "[1, 2]", "5", "null",
     "not json", ""}

SubmitStats(ac, total) ==
    MkObj(<< <<"acSubmissionNum", ac>>, <<"totalSubmissionNum", total>> >>)

MatchedUser(contributions, profile, calendar, stats) ==
    MkObj(<< <<"contributions", contributions>>, <<"profile", profile>>,
             <<"submissionCalendar", calendar>>, <<"submitStats", stats>> >>)

Payload(questions, user) ==
    MkObj(<< <<"data",
               MkObj(<< <<"allQuestionsCount", questions>>,
                        <<"matchedUser", user>> >>)>> >>)

\* A matchedUser whose scalar leaves are points, reputation and ranking.
ScalarUser(points, reputation, ranking) ==
    MatchedUser(MkObj(<< <<"points", points>> >>),
                MkObj(<< <<"reputation", reputation>>, <<"ranking", ranking>> >>),
                JStr("{}"), SubmitStats(SampleAccepted, SampleTotal))

\* The scalar leaves: a number, also one that is not finite.
Scalars == {JInt(7)} \cup {JFloat(x) : x \in NonFinite}

SampleUser(ac, total) ==
    MatchedUser(MkObj(<< <<"points", JInt(7)>> >>),
                MkObj(<< <<"reputation", JInt(5)>>, <<"ranking", JInt(9)>> >>),
                JStr("{\"1620000000\":5,\"1610000000\":2}"),
                SubmitStats(ac, total))

\* Every container and every leaf absent, null or present.
ShapeUsers ==
    {MatchedUser(c, p, cal, st) :
        c \in {Absent, Null} \cup
              {MkObj(<< <<"points", x>> >>) : x \in {Absent, JInt(7)}},
        p \in {Absent, Null} \cup
              {MkObj(<< <<"reputation", x>>, <<"ranking", y>> >>) :
                  x \in {Absent, JInt(5)}, y \in {Absent, JInt(9)}},
        cal \in {Absent, Null} \cup {JStr(txt) : txt \in CalendarTexts},
        st \in {Absent, Null} \cup
               {SubmitStats(a, t) : a \in {Absent, Null, SampleAccepted},
                                    t \in {Absent, Null, SampleTotal}}}
ShapePayloads ==
    {Null, EmptyObj, MkObj(<< <<"data", Null>> >>)} \cup
    {Payload(q, u) : q \in {Absent, Null, SampleQuestions},
                     u \in {Absent, Null} \cup ShapeUsers}

\* The reply requests.post returns for a 2xx status with body b.
Reply(b) == [status_code |-> 200, body |-> b]

\* The reply for an error status; its body is never read.
ErrorReply(c) == [status_code |-> c, body |-> Invalid]

\* A reply whose status is past the 5xx range: raise_for_status lets it by.
OddStatusReply(c) ==
    [status_code |-> c, body |-> Payload(SampleQuestions, Absent)]

\* A reply in which allQuestionsCount is q.
QuestionReply(q) == Reply(Payload(q, SampleUser(SampleAccepted, SampleTotal)))

\* A reply in which acSubmissionNum is a and totalSubmissionNum is t.
SubmitReply(a, t) == Reply(Payload(SampleQuestions, SampleUser(a, t)))

(***************************************************************************)
(* The request: get_statistic and the steps of get_stats.                  *)
(***************************************************************************)
NoResponse == [status_code |-> 0, body |-> Invalid]
NoResult == StatsResponse("none", Message("", ""), NoFields)
NoHttp ==
    [status_code |-> 0, detail |-> Message("", ""), message |-> "",
     content |-> NoResult]

\* HTTPException(status_code, detail)
HTTPException(status_code, detail) ==
    [status_code |-> status_code, detail |-> detail, message |-> "",
     content |-> NoResult]

\* JSONResponse(status_code=..., content={"message": message})
JSONResponse(status_code, message) ==
    [status_code |-> status_code, detail |-> Message("", ""),
     message |-> message, content |-> NoResult]

\* The route "/{username}": the segment has one character or more.
RouteMatches(u) == u # ""

\* `not username`
UsernameMissing(u) == u = ""

Init ==
    /\ pc = "idle"
    /\ username = ""
    /\ posts = 0
    /\ responses = 0
    /\ transport = "none"
    /\ response = NoResponse
    /\ result = NoResult
    /\ http = NoHttp

\* An inbound GET whose path matches the route reaches get_statistic with
\* the path's username.
Receive ==
    /\ pc \in {"idle", "done"}
    /\ \E u \in Usernames : RouteMatches(u) /\ username' = u
    /\ pc' = "handler"
    /\ posts' = 0
    /\ responses' = 0
    /\ transport' = "none"
    /\ response' = NoResponse
    /\ result' = NoResult
    /\ http' = NoHttp

\* An inbound GET whose path matches no route is answered 404 by the
\* application's handler; get_statistic is not entered.
custom_404_handler ==
    /\ pc \in {"idle", "done"}
    /\ \E u \in Usernames : ~RouteMatches(u) /\ username' = u
    /\ http' = JSONResponse(404, "Resource not found")
    /\ responses' = 1
    /\ pc' = "done"
    /\ posts' = 0
    /\ transport' = "none"
    /\ response' = NoResponse
    /\ result' = NoResult

\* Lines 169-172: the username is checked, then get_stats is entered (the
\* query is built).
CallGetStats ==
    /\ pc = "handler"
    /\ IF UsernameMissing(username)
       THEN /\ http' = HTTPException(400,
                           Message("Username parameter is required", ""))
            /\ responses' = responses + 1
            /\ pc' = "done"
       ELSE /\ pc' = "post"
            /\ UNCHANGED <<responses, http>>
    /\ UNCHANGED <<username, posts, transport, response, result>>

\* Line 22 raises: no connection, or a timeout; get_stats returns the error.
PostRaises ==
    /\ pc = "post"
    /\ \E exc \in PostExceptions :
          /\ transport' = exc
          /\ result' = HandleException(exc)
    /\ posts' = posts + 1
    /\ pc' = "returned"
    /\ UNCHANGED <<username, responses, response, http>>

\* Line 22 returns the upstream's reply: an error status, a body that is no
\* JSON, or a payload: one of the shapes, or a well-formed shape in which one
\* list varies (allQuestionsCount; acSubmissionNum in its counts;
\* acSubmissionNum or totalSubmissionNum in its submissions; any of the three
\* with malformed entries).
PostReturns ==
    /\ pc = "post"
    /\ \/ \E c \in {404, 500} : response' = ErrorReply(c)
       \/ \E c \in {600} : response' = OddStatusReply(c)
       \/ \E b \in {Invalid} \cup ShapePayloads : response' = Reply(b)
       \/ \E m \in 0..MaxLen : \E q \in ListsOf(CountEntries, m) :
             response' = QuestionReply(q)
       \/ \E m \in 0..MaxLen : \E a \in ListsOf(CountEntries, m) :
             response' = SubmitReply(a, SampleTotal)
       \/ \E m \in 0..(MaxLen - 1) : \E a \in ListsOf(SubEntries, m) :
             \E t \in EasyOnly : response' = SubmitReply(a, t)
       \/ \E m \in 0..(MaxLen - 1) : \E t \in ListsOf(SubEntries, m) :
             \E a \in EasyOnly : response' = SubmitReply(a, t)
       \/ \E points, reputation, ranking \in Scalars :
             response' = Reply(Payload(SampleQuestions,
                                       ScalarUser(points, reputation, ranking)))
       \/ \E at \in RateSamples :
             response' = SubmitReply(EasyList(at[1]), EasyList(at[2]))
       \/ \E m \in 0..MaxLen : \E bad \in ListsOf(BadEntries, m) :
             \/ response' = QuestionReply(bad)
             \/ response' = SubmitReply(bad, SampleTotal)
             \/ response' = SubmitReply(SampleAccepted, bad)
    /\ transport' = "response"
    /\ posts' = posts + 1
    /\ pc' = "response"
    /\ UNCHANGED <<username, responses, result, http>>

\* Lines 23-30 on the reply.
HandleResponse ==
    /\ pc = "response"
    /\ \E decodeError \in JsonErrorClasses :
          result' = AfterPost(response, decodeError)
    /\ pc' = "returned"
    /\ UNCHANGED <<username, posts, responses, transport, response, http>>

\* json.dumps(value, allow_nan=False) of the answer's content succeeds: no
\* float that is not finite stands anywhere in value.
RECURSIVE Serialisable(_)
Serialisable(value) ==
    CASE value.t = "float" -> FALSE
      [] value.t = "list" ->
           \A i \in 1..Len(value.v) : Serialisable(value.v[i])
      [] value.t = "obj" ->
           \A k \in DOMAIN value.v : Serialisable(value.v[k])
      [] value.t = "dict" ->
           \A i \in 1..Len(value.v) : Serialisable(value.v[i][2])
      [] OTHER -> TRUE

\* The stats that line 175 returns can be written as the JSON body.
ContentSerialisable(stats) ==
    \A k \in DOMAIN stats.data : Serialisable(stats.data[k])

\* Lines 174-177, and the answer sent: the returned stats as the body of a
\* 200, or the HTTPException's status and detail.
Respond ==
    /\ pc = "returned"
    /\ result.status = "success" => ContentSerialisable(result)
    /\ http' = IF result.status = "success"
               THEN [status_code |-> 200, detail |-> Message("", ""),
                     message |-> "", content |-> result]
               ELSE HTTPException(500, result.message)
    /\ responses' = responses + 1
    /\ pc' = "done"
    /\ UNCHANGED <<username, posts, transport, response, result>>

\* Line 175 returned stats that cannot be written as JSON: the error is
\* unhandled and the application's handler answers 500.
custom_500_handler ==
    /\ pc = "returned"
    /\ result.status = "success"
    /\ ~ContentSerialisable(result)
    /\ http' = JSONResponse(500, "Internal server error")
    /\ responses' = responses + 1
    /\ pc' = "done"
    /\ UNCHANGED <<username, posts, transport, response, result>>

Next ==
    \/ Receive
    \/ custom_404_handler
    \/ CallGetStats
    \/ PostRaises
    \/ PostReturns
    \/ HandleResponse
    \/ Respond
    \/ custom_500_handler

Spec == Init /\ [][Next]_vars

(***************************************************************************)
(* Reading a state: the request's phase and the fields of the payload that *)
(* came back, each Absent when it, or a container above it, is not there.  *)
(***************************************************************************)
Field(x, k) == IF x.t = "obj" /\ k \in DOMAIN x.v THEN x.v[k] ELSE Absent

\* get_stats has returned.
Returned == pc \in {"returned", "done"}

\* get_stats has returned after a reply that raise_for_status let by and
\* whose body decoded as JSON.
Translated ==
    /\ Returned
    /\ transport = "response"
    /\ ~(response.status_code >= 400 /\ response.status_code < 600)
    /\ response.body.t # "invalid"

InData == Field(response.body, "data")
InQuestions == Field(InData, "allQuestionsCount")
InUser == Field(InData, "matchedUser")
InContributions == Field(InUser, "contributions")
InProfile == Field(InUser, "profile")
InCalendar == Field(InUser, "submissionCalendar")
InSubmitStats == Field(InUser, "submitStats")
InAccepted == Field(InSubmitStats, "acSubmissionNum")
InTotal == Field(InSubmitStats, "totalSubmissionNum")

\* The entries of a list field, none when the field is absent.
Entries(x) == IF x.t = "list" THEN x.v ELSE <<>>

HasLabel(e, L) ==
    /\ e.t = "obj"
    /\ "difficulty" \in DOMAIN e.v
    /\ e.v["difficulty"].t = "str"
    /\ e.v["difficulty"].v = L

\* The places of the entries labelled L.
Labelled(entries, L) == {i \in 1..Len(entries) : HasLabel(entries[i], L)}

\* Field k of the first entry labelled L; 0 when there is no such entry or
\* the entry has no field k.
FirstLabelled(entries, L, k) ==
    LET at == Labelled(entries, L)
    IN  IF at = {} THEN JInt(0)
        ELSE LET e == entries[CHOOSE i \in at : \A j \in at : i <= j]
             IN  IF k \in DOMAIN e.v THEN e.v[k] ELSE JInt(0)

\* The sum of the counts of all entries (an entry without a count adds 0).
RECURSIVE CountTotal(_)
CountTotal(entries) ==
    IF entries = <<>> THEN 0
    ELSE (IF "count" \in DOMAIN Head(entries).v
          THEN Head(entries).v["count"].v ELSE 0) + CountTotal(Tail(entries))

TranslatorPrefixes == {"Missing key in response: ", "Data processing error: "}

(***************************************************************************)
(* C1.  Whenever the translator returns Success, total_solved equals       *)
(* easy_solved + medium_solved + hard_solved of the same result, whatever   *)
(* acSubmissionNum holds (missing labels, duplicates, an "All" entry).      *)
(* The + is Python's: three numbers add, three strs or three lists are      *)
(* joined in that order.                                                    *)
(***************************************************************************)
C1_TotalSolvedIsSum ==
    (Translated /\ result.status = "success") =>
        LET e == result.data.easy_solved
            m == result.data.medium_solved
            h == result.data.hard_solved
            total == result.data.total_solved
        IN  \/ /\ IsInt(e) /\ IsInt(m) /\ IsInt(h) /\ IsInt(total)
               /\ total.v = e.v + m.v + h.v
            \/ /\ IsStr(e) /\ IsStr(m) /\ IsStr(h) /\ IsStr(total)
               /\ total.v = (e.v \o m.v) \o h.v
            \/ /\ IsList(e) /\ IsList(m) /\ IsList(h) /\ IsList(total)
               /\ total.v = (e.v \o m.v) \o h.v

\* A Success whose acSubmissionNum has an "All" entry and two "Easy" entries
\* with different counts, the sum being positive.
C1_Witness ==
    /\ Translated
    /\ result.status = "success"
    /\ IsInt(result.data.total_solved)
    /\ result.data.total_solved.v > 0
    /\ Labelled(Entries(InAccepted), "All") # {}
    /\ \E i, j \in Labelled(Entries(InAccepted), "Easy") :
          /\ i < j
          /\ Field(Entries(InAccepted)[i], "count") #
                Field(Entries(InAccepted)[j], "count")

(***************************************************************************)
(* C2.  When the outbound POST fails at the transport level (no            *)
(* connection, a timeout, an error status), get_stats returns an Error      *)
(* whose message starts "Request failed:", and the endpoint answers 500     *)
(* with that message as its detail.                                        *)
(***************************************************************************)
TransportFailed ==
    /\ Returned
    /\ \/ transport \in PostExceptions
       \/ /\ transport = "response"
          /\ response.status_code >= 400
          /\ response.status_code < 600

C2_TransportFailure ==
    TransportFailed =>
        /\ result.status = "error"
        /\ result.message.prefix = "Request failed: "
        /\ pc = "done" =>
              /\ http.status_code = 500
              /\ http.detail = result.message

\* Answered after a timeout, and answered after an error status.
C2_Witness ==
    /\ pc = "done"
    /\ http.status_code = 500
    /\ \/ transport = "requests.Timeout"
       \/ transport = "response" /\ response.status_code = 404

(***************************************************************************)
(* C3.  When the reply has a 2xx status and a body that is no JSON,        *)
(* get_stats returns the Error "Failed to decode JSON response".           *)
(***************************************************************************)
C3_DecodeFailureMessage ==
    (Returned /\ transport = "response" /\ response.status_code = 200
        /\ response.body.t = "invalid") =>
        /\ result.status = "error"
        /\ result.message = Message("Failed to decode JSON response", "")

(***************************************************************************)
(* C4.  A request with the empty username is answered 400 "Username        *)
(* parameter is required", and no outbound POST is issued at any point of   *)
(* its handling.                                                           *)
(***************************************************************************)
C4_EmptyUsername ==
    (pc # "idle" /\ username = "") =>
        /\ posts = 0
        /\ transport = "none"
        /\ pc = "done" =>
              /\ http.status_code = 400
              /\ http.detail = Message("Username parameter is required", "")
              /\ responses = 1

\* What the code does keep of C4: the request is answered once, with no
\* outbound POST; the answer is the 404 of the unmatched route.
C4_EmptyUsernameNotFound ==
    (pc # "idle" /\ username = "") =>
        /\ pc = "done"
        /\ posts = 0
        /\ transport = "none"
        /\ responses = 1
        /\ http = JSONResponse(404, "Resource not found")

(***************************************************************************)
(* Payloads in which fields are missing but nothing is malformed.          *)
(***************************************************************************)
\* A list field: absent, or a list of records whose difficulty is a
\* scalar and whose other leaves are numbers.
WellFormedEntries(x) ==
    \/ x.t = "absent"
    \/ /\ x.t = "list"
       /\ \A i \in 1..Len(x.v) :
             /\ x.v[i].t = "obj"
             /\ \A k \in DOMAIN x.v[i].v :
                   x.v[i].v[k].t \in
                      (IF k = "difficulty" THEN {"int", "str"} ELSE {"int"})

\* A record field: absent, or a record whose leaves are numbers.
WellFormedRecord(x) ==
    \/ x.t = "absent"
    \/ x.t = "obj" /\ \A k \in DOMAIN x.v : x.v[k].t = "int"

\* The calendar text parses as a JSON mapping.
CalendarIsMapping(x) ==
    /\ x.t = "str"
    /\ JsonLoads(x).exc = "none"
    /\ JsonLoads(x).val.t = "dict"

\* All of the payload but matchedUser itself and its calendar.
WellFormedRest ==
    /\ response.body.t = "obj"
    /\ InData.t \in {"absent", "obj"}
    /\ WellFormedEntries(InQuestions)
    /\ WellFormedRecord(InContributions)
    /\ WellFormedRecord(InProfile)
    /\ InSubmitStats.t \in {"absent", "obj"}
    /\ WellFormedEntries(InAccepted)
    /\ WellFormedEntries(InTotal)

\* Every value derived from a field that is not there is 0 (or empty).
AbsentGivesZero ==
    LET d == result.data
    IN  /\ InQuestions.t = "absent" =>
              /\ d.total_questions = JInt(0)
              /\ d.total_easy = JInt(0)
              /\ d.total_medium = JInt(0)
              /\ d.total_hard = JInt(0)
        /\ InAccepted.t = "absent" =>
              /\ d.total_solved = JInt(0)
              /\ d.easy_solved = JInt(0)
              /\ d.medium_solved = JInt(0)
              /\ d.hard_solved = JInt(0)
        /\ (InAccepted.t = "absent" \/ InTotal.t = "absent") =>
              d.acceptance_rate = JInt(0)
        /\ Field(InContributions, "points").t = "absent" =>
              d.contribution_points = JInt(0)
        /\ Field(InProfile, "reputation").t = "absent" => d.reputation = JInt(0)
        /\ Field(InProfile, "ranking").t = "absent" => d.ranking = JInt(0)
        /\ InCalendar.t = "absent" => d.submission_calendar = PyDict(<<>>)

(***************************************************************************)
(* C5.  Every field of the payload is optional: with any of them absent,   *)
(* the translator returns Success with 0 (or the empty calendar) for what   *)
(* is derived from an absent field; this includes the unknown user, for     *)
(* whom the upstream sends matchedUser: null.                               *)
(***************************************************************************)
C5_OptionalFields ==
    (Translated /\ WellFormedRest
        /\ InUser.t \in {"absent", "obj", "null"}
        /\ (InCalendar.t = "absent" \/ CalendarIsMapping(InCalendar))) =>
        /\ result.status = "success"
        /\ AbsentGivesZero

\* What the code does keep of C5: the same with matchedUser absent or a record.
C5_AbsentFields ==
    (Translated /\ WellFormedRest
        /\ InUser.t \in {"absent", "obj"}
        /\ (InCalendar.t = "absent" \/ CalendarIsMapping(InCalendar))) =>
        /\ result.status = "success"
        /\ AbsentGivesZero

(***************************************************************************)
(* C6.  When submissionCalendar is a text that does not parse as a JSON    *)
(* mapping, the result is still Success, with the empty calendar.           *)
(***************************************************************************)
C6_CalendarFailureIsSilent ==
    (Translated /\ WellFormedRest /\ InUser.t = "obj"
        /\ InCalendar.t = "str" /\ ~CalendarIsMapping(InCalendar)) =>
        /\ result.status = "success"
        /\ result.data.submission_calendar = PyDict(<<>>)

\* What the code does keep of C6: the same for a text that is no JSON at all.
C6_InvalidJsonIsSilent ==
    (Translated /\ WellFormedRest /\ InUser.t = "obj"
        /\ InCalendar.t = "str" /\ JsonLoads(InCalendar).exc # "none") =>
        /\ result.status = "success"
        /\ result.data.submission_calendar = PyDict(<<>>)

(***************************************************************************)
(* C7.  When translation fails on a payload in which a non-container       *)
(* stands where a container is expected (data, matchedUser, submitStats,    *)
(* profile or contributions is null, or an entry of allQuestionsCount or    *)
(* acSubmissionNum is no record), the Error is the translator's: its        *)
(* message starts "Missing key in response:" or "Data processing error:".   *)
(***************************************************************************)
HasNonRecord(x) == x.t = "list" /\ \E i \in 1..Len(x.v) : x.v[i].t # "obj"

NonContainer ==
    \/ InData.t = "null"
    \/ InUser.t = "null"
    \/ InSubmitStats.t = "null"
    \/ InProfile.t = "null"
    \/ InContributions.t = "null"
    \/ HasNonRecord(InQuestions)
    \/ HasNonRecord(InAccepted)

C7_TranslatorReportsNonContainer ==
    (Translated /\ NonContainer /\ result.status # "success") =>
        /\ result.status = "error"
        /\ result.message.prefix \in TranslatorPrefixes

(***************************************************************************)
(* C8.  acceptance_rate reads the first "Easy" entries only: with a and t  *)
(* the submissions of the first "Easy" entry of acSubmissionNum and of      *)
(* totalSubmissionNum (0 when there is none), it is 0 when t = 0 and        *)
(* a / t * 100 rounded to two decimals otherwise (12 and 20 give 60.0).     *)
(* In hundredths: an integer nearest to a * 10000 / t; where the quotient  *)
(* lies halfway between two hundredths, the float a / t * 100 decides       *)
(* which of the two it is.                                                  *)
(***************************************************************************)
Abs(x) == IF x < 0 THEN -x ELSE x

C8_AcceptanceRate ==
    /\ _calculate_acceptance_rate(JInt(12), JInt(20)) = Ok(JInt(6000))
    /\ (Translated /\ result.status = "success") =>
          LET a == FirstLabelled(Entries(InAccepted), "Easy", "submissions")
              t == FirstLabelled(Entries(InTotal), "Easy", "submissions")
              r == result.data.acceptance_rate
          IN  /\ IsInt(r)
              /\ IF IsInt(t) /\ t.v = 0 THEN r.v = 0
                 ELSE /\ IsInt(a) /\ IsInt(t)
                      /\ 2 * Abs(r.v * t.v - a.v * 10000) <= t.v

\* 2 of 3 is 66.67, rounded up, the "Easy" total standing behind a "Medium"
\* entry with other submissions.
C8_Witness ==
    /\ Translated
    /\ result.status = "success"
    /\ result.data.acceptance_rate = JInt(6667)
    /\ Len(Entries(InTotal)) >= 2
    /\ HasLabel(Entries(InTotal)[1], "Medium")
    /\ Field(Entries(InTotal)[1], "submissions").t = "int"
    /\ Field(Entries(InTotal)[1], "submissions") # JInt(3)

(***************************************************************************)
(* C9.  A request with a non-empty username issues exactly one outbound    *)
(* POST, whatever its outcome (no retry), and ends with exactly one         *)
(* response: 200 on Success, 500 on Error.                                  *)
(***************************************************************************)
C9_OnePostOneResponse ==
    /\ posts <= 1
    /\ responses <= 1
    /\ (username # "" /\ pc \in {"response", "returned", "done"}) => posts = 1
    /\ pc \in {"handler", "post", "response", "returned"} => responses = 0
    /\ (username # "" /\ pc = "done") =>
          /\ responses = 1
          /\ \/ result.status = "success" /\ http.status_code = 200
             \/ result.status = "error" /\ http.status_code = 500

\* What the code does keep of C9: one POST and one response; 500 with the
\* message as detail on Error, and on Success 200 when the stats can be
\* written as JSON, else the 500 of the unhandled error.
C9_OnePostOneAnswer ==
    /\ posts <= 1
    /\ responses <= 1
    /\ (username # "" /\ pc \in {"response", "returned", "done"}) => posts = 1
    /\ pc \in {"handler", "post", "response", "returned"} => responses = 0
    /\ (username # "" /\ pc = "done") =>
          /\ responses = 1
          /\ result.status \in {"success", "error"}
          /\ result.status = "error" =>
                http = HTTPException(500, result.message)
          /\ (result.status = "success" /\ ContentSerialisable(result)) =>
                http.status_code = 200 /\ http.content = result
          /\ (result.status = "success" /\ ~ContentSerialisable(result)) =>
                http = JSONResponse(500, "Internal server error")

(***************************************************************************)
(* C10.  Per-difficulty values are those of the first matching entry: for  *)
(* each label, total_<label> is the count of the first entry of             *)
(* allQuestionsCount with that difficulty and <label>_solved the count of   *)
(* the first such entry of acSubmissionNum, 0 when none matches;            *)
(* total_questions is the sum of count over all entries (600, 1300 and 500  *)
(* give 2400).                                                              *)
(***************************************************************************)
ExampleQuestions ==
    JList(<<MkObj(<< <<"difficulty", JStr("Easy")>>, <<"count", JInt(600)>> >>),
            MkObj(<< <<"difficulty", JStr("Medium")>>, <<"count", JInt(1300)>> >>),
            MkObj(<< <<"difficulty", JStr("Hard")>>, <<"count", JInt(500)>> >>)>>)

C10_FirstMatchAndSum ==
    /\ LET d == _process_response(Payload(ExampleQuestions, Absent)).val.data
       IN  /\ d.total_questions = JInt(2400)
           /\ d.total_easy = JInt(600)
           /\ d.total_medium = JInt(1300)
           /\ d.total_hard = JInt(500)
    /\ (Translated /\ result.status = "success") =>
          LET q == Entries(InQuestions)
              a == Entries(InAccepted)
              d == result.data
          IN  /\ d.total_easy = FirstLabelled(q, "Easy", "count")
              /\ d.total_medium = FirstLabelled(q, "Medium", "count")
              /\ d.total_hard = FirstLabelled(q, "Hard", "count")
              /\ d.easy_solved = FirstLabelled(a, "Easy", "count")
              /\ d.medium_solved = FirstLabelled(a, "Medium", "count")
              /\ d.hard_solved = FirstLabelled(a, "Hard", "count")
              /\ d.total_questions = JInt(CountTotal(q))

\* Two "Easy" entries with different counts and an "All" entry in
\* allQuestionsCount: the sum exceeds the three per-difficulty totals.
C10_Witness ==
    /\ Translated
    /\ result.status = "success"
    /\ Labelled(Entries(InQuestions), "All") # {}
    /\ \E i, j \in Labelled(Entries(InQuestions), "Easy") :
          /\ i < j
          /\ Field(Entries(InQuestions)[i], "count") #
                Field(Entries(InQuestions)[j], "count")
    /\ result.data.total_questions.v >
          result.data.total_easy.v + result.data.total_medium.v
          + result.data.total_hard.v

====
